---- MODULE Spec2Model ----
(***************************************************************************)
(* Model of simiir_api's SimulationManager (services/simulation_manager.py) *)
(* and of the control endpoint that drives it (api/simulations.py).         *)
(*                                                                          *)
(* The server is one asyncio event loop.  A coroutine runs without          *)
(* interruption between two awaits, so every action below is the code from  *)
(* one await to the next; the database operation that ends the segment      *)
(* (select, commit) takes effect within the action.  A request handler uses *)
(* its own SQLAlchemy session (database.get_session), a monitoring task its *)
(* own (async_session_maker), so each works on the copy of the row it       *)
(* loaded.  The worker processes run outside the loop.                      *)
(***************************************************************************)
EXTENDS Integers, Sequences, FiniteSets, TLC

\* ---------------------------------------------------------------- constants

\* config.py: Settings.max_concurrent_simulations
max_concurrent_simulations == 3

\* config.py: Settings.checkpoint_interval
checkpoint_interval == 100

\* ------------------------------------------------------------------- bounds

\* runs created
MaxRuns == 1

\* Spec: monitoring tasks (and so worker processes) created, and requests in
\* flight at the same time
MaxTasks == 2
MaxReq == 1

\* SpecRace: the same two bounds for control calls that overlap, and the
\* checkpoints of a run beyond which no pause asks for one more
RaceTasks == 1
RaceReq == 2
RaceCkpt == 1

\* output lines one worker writes
MaxLines == 1

\* SpecEdit: runs created
EditRuns == 1

\* SpecCreate: runs created
CreateRuns == 2

\* SpecMaterialize: characters of a user or topic id, ids in an override list
MaxIdLen == 2
MaxIds == 2

\* ------------------------------------------------------------------- values

PENDING == "pending"
RUNNING == "running"
PAUSED == "paused"
COMPLETED == "completed"
FAILED == "failed"
CANCELLED == "cancelled"

\* models/simulation.py: SimulationStatus
SimulationStatus == {PENDING, RUNNING, PAUSED, COMPLETED, FAILED, CANCELLED}

Terminal == {COMPLETED, FAILED, CANCELLED}

\* the identifiers a request may name; those not yet created are unknown ids
RunIds == 1..(max_concurrent_simulations + 1)

Reqs == 1..(IF MaxReq >= RaceReq THEN MaxReq ELSE RaceReq)

VARIABLES
    db,                  \* simulations table: run id -> row (status "none": no row)
    ckpts,               \* simulation_checkpoints table: run id -> rows in creation order
    logf,                \* lines in the file at log_file_path of each run
    running_simulations, \* SimulationManager.running_simulations: run id -> process (0: no key)
    simulation_tasks,    \* SimulationManager.simulation_tasks: run id -> task (0: no key)
    tasks,               \* the asyncio tasks created by start_simulation, in creation order
    procs,               \* the worker process of each task (same index)
    req,                 \* the requests in flight
    workspace            \* the create request under study and what it leaves behind

vars == <<db, ckpts, logf, running_simulations, simulation_tasks, tasks, procs, req,
          workspace>>

\* models/simulation.py: the columns of Simulation the manager and the endpoints
\* write (cfg: config_content, prog: progress_percentage, total:
\* total_iterations, 0 for NULL: it is assigned nowhere and is NULL in every
\* row).  Four fields are no columns.
\* art is the content of the file at config_file_path, which outlives the row.
\* gone tells that the row was deleted, so that its identifier is not drawn
\* again, and ndel counts the checkpoint rows of the run deleted so far.  piter
\* keeps, for the claims, the current_iteration that the pause which last
\* suspended the run's registered process had loaded.
NoRow == [status |-> "none", started |-> FALSE, completed |-> FALSE,
          pid |-> 0, iter |-> 0, total |-> 0, prog |-> 0, err |-> "none",
          cfg |-> "none", art |-> "none", gone |-> FALSE, ndel |-> 0, piter |-> 0]

\* create_simulation: the row as inserted, the configuration as materialized
\* from the template in the row and in the file
NewRow == [NoRow EXCEPT !.status = PENDING, !.cfg = "created", !.art = "created"]

\* the row of run r is in the table
Exists(r) == db[r].status # "none"

\* a flush for a row that was deleted meanwhile matches no row (the commit
\* raises StaleDataError): the table is left as it is
Persist(r, new) == IF Exists(r) THEN new ELSE db

IdleReq == [op |-> "none", run |-> 0, pc |-> "idle", st |-> "none", it |-> 0, ck |-> FALSE,
            cfg |-> "none", nck |-> 0, code |-> 0]

NoProc == [state |-> "none", code |-> "none", reaped |-> FALSE, pipe |-> 0, out |-> 0]

\* ------------------------------------------------------------ configuration

\* A string is the sequence of its characters: a letter and a blank stand for
\* the characters that str.strip() keeps and for those it removes.
Chars == {"u", " "}

Strings(n) == UNION {[1..k -> Chars] : k \in 0..n}

\* the lists of at most n strings
Lists(n) == UNION {[1..k -> Strings(MaxIdLen)] : k \in 0..n}

\* a <users> or <topics> element of the document: the text of its children, in
\* document order
NoSection == [present |-> FALSE, elems |-> <<>>]

Section(ids) == [present |-> TRUE, elems |-> ids]

\* a path: none, the one a template carries, output_base_path / sim_id as
\* composed ("relative": output_base_path is ./outputs), or made absolute
NoPath == [kind |-> "none", run |-> 0]

TemplatePath == [kind |-> "template", run |-> 0]

\* simulation_manager.py line 48: settings.output_base_path / sim_id
OutputDir(r) == [kind |-> "relative", run |-> r]

\* Path.resolve()
resolve(p) == [p EXCEPT !.kind = "absolute"]

\* an <output> element: its directory attribute and the text of its <directory>
\* child (NoPath: it has none)
NoOutput == [present |-> FALSE, attr |-> NoPath, child |-> NoPath]

Output(attr, child) == [present |-> TRUE, attr |-> attr, child |-> child]

\* an element tree by the three elements XMLConfigManager looks for
NoTree == [users |-> NoSection, topics |-> NoSection, output |-> NoOutput]

\* a text that is, or is to be, an XML document: kind "xml" parses to tree,
\* "malformed" does not parse, "none" is no text at all (no file, no column)
NoDoc == [kind |-> "none", tree |-> NoTree]

Malformed == [kind |-> "malformed", tree |-> NoTree]

\* XMLConfigManager.to_string: the tree serialized
to_string(tree) == [kind |-> "xml", tree |-> tree]

\* XMLConfigManager.set_users: the children of the users element replaced by
\* one <user> per id; nothing if the document has no users element
set_users(tree, user_ids) ==
    IF tree.users.present THEN [tree EXCEPT !.users = Section(user_ids)] ELSE tree

\* XMLConfigManager.set_topics
set_topics(tree, topic_ids) ==
    IF tree.topics.present THEN [tree EXCEPT !.topics = Section(topic_ids)] ELSE tree

\* XMLConfigManager.set_output_directory: the directory attribute if the output
\* element has one, else its <directory> child, created if missing; nothing if
\* the document has no output element
set_output_directory(tree, output_dir) ==
    IF ~tree.output.present THEN tree
    ELSE IF tree.output.attr # NoPath THEN [tree EXCEPT !.output.attr = output_dir]
    ELSE [tree EXCEPT !.output.child = output_dir]

RECURSIVE lstrip(_)
lstrip(s) == IF s # <<>> /\ Head(s) = " " THEN lstrip(Tail(s)) ELSE s

RECURSIVE rstrip(_)
rstrip(s) == IF s # <<>> /\ s[Len(s)] = " " THEN rstrip(SubSeq(s, 1, Len(s) - 1)) ELSE s

\* str.strip()
strip(s) == rstrip(lstrip(s))

\* "if user_elem.text": an element without text, or with the empty text
HasText(s) == s # <<>>

\* get_users and get_topics on their element: the stripped text of every child
\* that has text
Texts(section) ==
    LET kept == SelectSeq(section.elems, HasText)
    IN  [k \in 1..Len(kept) |-> strip(kept[k])]

\* XMLConfigManager.get_users
get_users(tree) == IF tree.users.present THEN Texts(tree.users) ELSE <<>>

\* XMLConfigManager.get_topics
get_topics(tree) == IF tree.topics.present THEN Texts(tree.topics) ELSE <<>>

\* XMLConfigManager.validate
validate(tree) == tree.users.present /\ tree.topics.present /\ tree.output.present

\* an optional list of the request body (SimulationCreate.users, .topics)
NotGiven == [given |-> FALSE, ids |-> <<>>]

Given(ids) == [given |-> TRUE, ids |-> ids]

\* "if users": a list that is given and not empty
Truthy(override) == override.given /\ override.ids # <<>>

\* create_simulation, lines 55-64: the template parsed (the caller has seen to
\* it that it parses), the overrides and the output directory of run r set
Materialize(tree, users, topics, r) ==
    LET t1 == IF Truthy(users) THEN set_users(tree, users.ids) ELSE tree
        t2 == IF Truthy(topics) THEN set_topics(t1, topics.ids) ELSE t1
    IN  to_string(set_output_directory(t2, resolve(OutputDir(r))))

\* no create request under study.  pc: "request" a request received, "created"
\* answered 201, "raised" answered 400, "read" the artifact read back;
\* dir: the directory output_base_path / sim_id exists; file: the text of
\* config.xml in it; row: config_content of the row inserted
NoRequest == [pc |-> "none", config_content |-> NoDoc, users |-> NotGiven,
              topics |-> NotGiven, run |-> 0, dir |-> FALSE, file |-> NoDoc,
              row |-> NoDoc, got_users |-> <<>>, got_topics |-> <<>>]


Tasks == 1..Len(tasks)

\* A monitoring task inside the blocking process.stdout.readline() holds the
\* event loop: no other coroutine runs until the read returns.
LoopFree == \A i \in Tasks : tasks[i].pc # "readline"

Init ==
    /\ db = [r \in RunIds |-> NoRow]
    /\ ckpts = [r \in RunIds |-> <<>>]
    /\ logf = [r \in RunIds |-> 0]
    /\ running_simulations = [r \in RunIds |-> 0]
    /\ simulation_tasks = [r \in RunIds |-> 0]
    /\ tasks = <<>>
    /\ procs = <<>>
    /\ req = [q \in Reqs |-> IdleReq]
    /\ workspace = NoRequest

\* ----------------------------------------------------------------- requests

\* create_simulation as it would be if it drew the identifier among those not
\* in the table, those of deleted runs included
CreateReusing(r) ==
    /\ LoopFree
    /\ db[r].status = "none"
    /\ \A s \in RunIds : s < r => db[s].status # "none"
    /\ db' = [db EXCEPT ![r] = [NewRow EXCEPT !.gone = db[r].gone, !.ndel = db[r].ndel]]
    /\ UNCHANGED <<workspace, ckpts, logf, running_simulations, simulation_tasks, tasks, procs, req>>

\* create_simulation: a row in PENDING under a fresh identifier
Create(r) ==
    /\ LoopFree
    /\ db[r].status = "none" /\ ~db[r].gone
    /\ \A s \in RunIds : s < r => (db[s].status # "none" \/ db[s].gone)
    /\ db' = [db EXCEPT ![r] = NewRow]
    /\ UNCHANGED <<workspace, ckpts, logf, running_simulations, simulation_tasks, tasks, procs, req>>

\* the checks as they would be if pause_simulation refused only the statuses
\* that have no process left to suspend
AdmitsPauseUnlessOver(op, st) ==
    CASE op = "start" -> st # "none" /\ st # RUNNING
      [] op = "pause" -> st \in {RUNNING, PAUSED}
      [] op = "resume" -> st = PAUSED
      [] op = "stop" -> st \in {RUNNING, PAUSED}
      [] op = "update" -> st = PENDING
      [] op = "delete" -> st \in {PENDING, COMPLETED, FAILED, CANCELLED}

\* the checks as they would be if update_simulation refused only a run that is
\* executing
AdmitsUpdateUnlessRunning(op, st) ==
    CASE op = "start" -> st # "none" /\ st # RUNNING
      [] op = "pause" -> st = RUNNING
      [] op = "resume" -> st = PAUSED
      [] op = "stop" -> st \in {RUNNING, PAUSED}
      [] op = "update" -> st # "none" /\ st # RUNNING
      [] op = "delete" -> st \in {PENDING, COMPLETED, FAILED, CANCELLED}

\* The checks each method makes on the row it loaded, before it changes anything:
\* start_simulation lines 104-108, pause_simulation 332-336, resume_simulation
\* 370-374, stop_simulation 400-404, and the endpoints update_simulation (lines
\* 94-101) and delete_simulation (lines 236-243) ("none": no row, "not found")
Admits(op, st) ==
    CASE op = "start" -> st # "none" /\ st # RUNNING
      [] op = "pause" -> st = RUNNING
      [] op = "resume" -> st = PAUSED
      [] op = "stop" -> st \in {RUNNING, PAUSED}
      [] op = "update" -> st = PENDING
      [] op = "delete" -> st \in {PENDING, COMPLETED, FAILED, CANCELLED}

\* control_simulation for a request the method's check refuses: ValueError, HTTP
\* 400.  Nothing is written between the select and the raise, so the request
\* leaves no trace in the state.
Reject(op, r) ==
    /\ LoopFree
    /\ ~Admits(op, db[r].status)
    /\ UNCHANGED vars

\* control_simulation up to the first await of the manager's method:
\* session.execute(select(Simulation)...) loads the row into the request's
\* session; the request goes on when the check on that row passes
ReqLoad(q, op, r, ck) ==
    /\ LoopFree
    /\ Admits(op, db[r].status)
    /\ req[q].pc = "idle"
    /\ \A p \in Reqs : p < q => req[p].pc # "idle"
    /\ req' = [req EXCEPT ![q] = [op |-> op, run |-> r, pc |-> "loaded",
                                  st |-> db[r].status,
                                  it |-> IF op = "pause" THEN db[r].iter ELSE 0,
                                  ck |-> ck, cfg |-> db[r].cfg, nck |-> 0,
                                  code |-> 0]]
    /\ UNCHANGED <<workspace, db, ckpts, logf, running_simulations, simulation_tasks, tasks, procs>>

\* start_simulation, lines 110-113: the commit of RUNNING and started_at
StartCommit(q) ==
    LET r == req[q].run IN
    /\ LoopFree
    /\ req[q].op = "start" /\ req[q].pc = "loaded"
    /\ Exists(r)
    /\ db' = [db EXCEPT ![r].status = RUNNING, ![r].started = TRUE]
    /\ req' = [req EXCEPT ![q].pc = "committed"]
    /\ UNCHANGED <<workspace, ckpts, logf, running_simulations, simulation_tasks, tasks, procs>>

\* the task object asyncio.create_task returns: not started yet
NewTask(r) == [run |-> r, pc |-> "new", cancel |-> FALSE, lstatus |-> "none", liter |-> 0]

\* start_simulation, lines 116-125: refresh, create_task, registration of the task
StartSpawnTask(q) ==
    LET r == req[q].run IN
    /\ LoopFree
    /\ req[q].op = "start" /\ req[q].pc = "committed"
    /\ Exists(r)
    /\ tasks' = Append(tasks, NewTask(r))
    /\ procs' = Append(procs, NoProc)
    /\ simulation_tasks' = [simulation_tasks EXCEPT ![r] = Len(tasks) + 1]
    /\ req' = [req EXCEPT ![q] = IdleReq]
    /\ UNCHANGED <<workspace, db, ckpts, logf, running_simulations>>

\* _create_checkpoint: the row appended to simulation_checkpoints; checkpoint_data
\* holds the iteration and the status of the caller's copy of the run
Checkpoint(iter, status) == [iter |-> iter, status |-> status]

\* os.getpgid(process.pid) raises ProcessLookupError once the process was reaped
Reaped(p) == p # 0 /\ procs[p].reaped

\* os.killpg(pgid, SIGSTOP): a running process stops, a zombie is not affected
SigStop(p) == [procs EXCEPT ![p].state = IF @ = "running" THEN "stopped" ELSE @]

\* os.killpg(pgid, SIGCONT): a stopped process runs again
SigCont(p) == [procs EXCEPT ![p].state = IF @ = "stopped" THEN "running" ELSE @]

\* pause_simulation line 346, resume_simulation line 380, stop_simulation line
\* 410: the registry holds a process that was reaped, os.getpgid raises, the
\* request ends with that exception (HTTP 500) before the lines that follow
SignalError(q) ==
    /\ LoopFree
    /\ req[q].op \in {"pause", "resume", "stop"}
    /\ req[q].pc = (IF req[q].ck THEN "ckpt" ELSE "loaded")
    /\ Reaped(running_simulations[req[q].run])
    /\ req' = [req EXCEPT ![q] = IdleReq]
    /\ UNCHANGED <<workspace, db, ckpts, logf, running_simulations, simulation_tasks, tasks, procs>>

\* pause_simulation, lines 343-356: the signal to the registered process, then
\* the commit of PAUSED
PauseSignal(q) ==
    LET r == req[q].run
        p == running_simulations[r]
    IN  /\ ~Reaped(p)
        /\ procs' = IF p # 0 THEN SigStop(p) ELSE procs
        /\ db' = Persist(r, [db EXCEPT ![r].status = PAUSED,
                                         ![r].piter = IF p # 0 THEN req[q].it ELSE 0])
        /\ req' = [req EXCEPT ![q] = IdleReq]

\* pause_simulation, lines 338-340: the checkpoint's commit when create_checkpoint
\* is set, else straight on to the signal
PauseCheck(q) ==
    LET r == req[q].run IN
    /\ LoopFree
    /\ req[q].op = "pause" /\ req[q].pc = "loaded"
    /\ IF req[q].ck
       THEN /\ ckpts' = [ckpts EXCEPT ![r] = Append(@, Checkpoint(req[q].it, req[q].st))]
            /\ req' = [req EXCEPT ![q].pc = "ckpt"]
            /\ UNCHANGED <<db, procs>>
       ELSE /\ PauseSignal(q)
            /\ UNCHANGED ckpts
    /\ UNCHANGED <<workspace, logf, running_simulations, simulation_tasks, tasks>>

\* pause_simulation resumed after _create_checkpoint: lines 342-356
PauseAfterCheckpoint(q) ==
    /\ LoopFree
    /\ req[q].op = "pause" /\ req[q].pc = "ckpt"
    /\ PauseSignal(q)
    /\ UNCHANGED <<workspace, ckpts, logf, running_simulations, simulation_tasks, tasks>>

\* resume_simulation, lines 376-386
ResumeCommit(q) ==
    LET r == req[q].run
        p == running_simulations[r]
    IN
    /\ LoopFree
    /\ req[q].op = "resume" /\ req[q].pc = "loaded"
    /\ ~Reaped(p)
    /\ procs' = IF p # 0 THEN SigCont(p) ELSE procs
    /\ db' = Persist(r, [db EXCEPT ![r].status = RUNNING])
    /\ req' = [req EXCEPT ![q] = IdleReq]
    /\ UNCHANGED <<workspace, ckpts, logf, running_simulations, simulation_tasks, tasks>>

\* stop_simulation's signalling as it would be without the forced kill: a
\* worker that does not leave on SIGTERM within the grace period stays as it is
TerminateWithoutKill(p, honours) ==
    IF procs[p].state = "exited"
    THEN [procs EXCEPT ![p].reaped = TRUE]
    ELSE IF procs[p].state = "running" /\ honours
    THEN [procs EXCEPT ![p].state = "exited", ![p].code = "term", ![p].reaped = TRUE]
    ELSE procs

\* stop_simulation, lines 409-422: SIGTERM, process.wait(timeout=10), SIGKILL on
\* TimeoutExpired.  A zombie is reaped by the wait at once; a running worker that
\* honours SIGTERM exits within the grace period; a worker that ignores it, or is
\* stopped (SIGTERM stays pending), is killed.
Terminate(p, honours) ==
    IF procs[p].state = "exited"
    THEN [procs EXCEPT ![p].reaped = TRUE]
    ELSE IF procs[p].state = "running" /\ honours
    THEN [procs EXCEPT ![p].state = "exited", ![p].code = "term", ![p].reaped = TRUE]
    ELSE [procs EXCEPT ![p].state = "exited", ![p].code = "kill"]

\* task.cancel(): CancelledError is thrown into the task at the await it is
\* suspended on; a finished task is not affected
CancelTask(t) == [tasks EXCEPT ![t].cancel = (tasks[t].pc # "done")]

\* stop_simulation as it would be if CANCELLED were recorded only for a worker
\* that left within the grace period
StopCommitUnlessKilled(q, honours) ==
    LET r == req[q].run
        p == running_simulations[r]
        t == simulation_tasks[r]
        killed == p # 0 /\ Terminate(p, honours)[p].code = "kill"
    IN
    /\ LoopFree
    /\ req[q].op = "stop" /\ req[q].pc = "loaded"
    /\ ~Reaped(p)
    /\ procs' = IF p # 0 THEN Terminate(p, honours) ELSE procs
    /\ running_simulations' = [running_simulations EXCEPT ![r] = 0]
    /\ tasks' = IF t # 0 THEN CancelTask(t) ELSE tasks
    /\ simulation_tasks' = [simulation_tasks EXCEPT ![r] = 0]
    /\ db' = IF killed THEN db
             ELSE Persist(r, [db EXCEPT ![r].status = CANCELLED, ![r].completed = TRUE])
    /\ req' = [req EXCEPT ![q] = IdleReq]
    /\ UNCHANGED <<workspace, ckpts, logf>>

\* stop_simulation as it would be if it discarded the checkpoints of the run
\* it cancels
StopCommitDiscarding(q, honours) ==
    LET r == req[q].run
        p == running_simulations[r]
        t == simulation_tasks[r]
    IN
    /\ LoopFree
    /\ req[q].op = "stop" /\ req[q].pc = "loaded"
    /\ ~Reaped(p)
    /\ procs' = IF p # 0 THEN Terminate(p, honours) ELSE procs
    /\ running_simulations' = [running_simulations EXCEPT ![r] = 0]
    /\ tasks' = IF t # 0 THEN CancelTask(t) ELSE tasks
    /\ simulation_tasks' = [simulation_tasks EXCEPT ![r] = 0]
    /\ db' = Persist(r, [db EXCEPT ![r].status = CANCELLED, ![r].completed = TRUE])
    /\ ckpts' = [ckpts EXCEPT ![r] = <<>>]
    /\ req' = [req EXCEPT ![q] = IdleReq]
    /\ UNCHANGED <<workspace, logf>>

\* stop_simulation, lines 406-437
StopCommit(q, honours) ==
    LET r == req[q].run
        p == running_simulations[r]
        t == simulation_tasks[r]
    IN
    /\ LoopFree
    /\ req[q].op = "stop" /\ req[q].pc = "loaded"
    /\ ~Reaped(p)
    /\ procs' = IF p # 0 THEN Terminate(p, honours) ELSE procs
    /\ running_simulations' = [running_simulations EXCEPT ![r] = 0]
    /\ tasks' = IF t # 0 THEN CancelTask(t) ELSE tasks
    /\ simulation_tasks' = [simulation_tasks EXCEPT ![r] = 0]
    /\ db' = Persist(r, [db EXCEPT ![r].status = CANCELLED, ![r].completed = TRUE])
    /\ req' = [req EXCEPT ![q] = IdleReq]
    /\ UNCHANGED <<workspace, ckpts, logf>>

\* ---------------------------------------------------------- monitoring task

\* a finished coroutine: its locals are gone
Done(i) == [tasks EXCEPT ![i] = [NewTask(tasks[i].run) EXCEPT !.pc = "done"]]

\* the pipe of a worker whose monitoring task has finished: nobody reads it
Unread(i) == [procs EXCEPT ![i].pipe = 0, ![i].out = 0]

\* CancelledError thrown at an await inside the try of _monitor_simulation: no
\* except clause takes it (it is a BaseException), the finally clause closes the
\* log and awaits session.commit() with nothing to flush
Cancelled(i) == [tasks EXCEPT ![i].pc = "final_c", ![i].cancel = FALSE]

\* _run_simulation_process, lines 137-143: the task starts and loads the run into
\* its own session.  A task cancelled before its first step never runs.
TaskLoad(i) ==
    LET r == tasks[i].run IN
    /\ LoopFree
    /\ tasks[i].pc = "new"
    /\ Exists(r) \/ tasks[i].cancel
    /\ tasks' = IF tasks[i].cancel
                THEN Done(i)
                ELSE [tasks EXCEPT ![i].pc = "load", ![i].lstatus = db[r].status,
                                   ![i].liter = db[r].iter]
    /\ UNCHANGED <<workspace, db, ckpts, logf, running_simulations, simulation_tasks, procs, req>>

\* _run_simulation_process, lines 145-213: subprocess.Popen, registration of the
\* process, commit of process_id.  Popen raising (spawned = FALSE) enters the
\* handler of line 218, which awaits its select.
TaskSpawn(i, spawned) ==
    LET r == tasks[i].run IN
    /\ LoopFree
    /\ tasks[i].pc = "load"
    /\ Exists(r) \/ tasks[i].cancel
    /\ IF tasks[i].cancel
       THEN /\ tasks' = Done(i)
            /\ UNCHANGED <<db, procs, running_simulations>>
       ELSE IF spawned
       THEN /\ procs' = [procs EXCEPT ![i].state = "running"]
            /\ running_simulations' = [running_simulations EXCEPT ![r] = i]
            /\ db' = [db EXCEPT ![r].pid = i]
            /\ tasks' = [tasks EXCEPT ![i].pc = "spawned"]
       ELSE /\ tasks' = [tasks EXCEPT ![i].pc = "hload"]
            /\ UNCHANGED <<db, procs, running_simulations>>
    /\ UNCHANGED <<workspace, ckpts, logf, simulation_tasks, req>>

\* the flush of an attribute: SQLAlchemy writes a column only when the value set
\* differs from the one the session holds
Flush(held, set, stored) == IF set # held THEN set ELSE stored

Max(a, b) == IF a >= b THEN a ELSE b

\* after _update_progress the loop awaits _create_checkpoint's commit when
\* current_iteration is a multiple of checkpoint_interval (line 260), else the
\* sleep of line 263
AfterProgress(iter) == IF iter % checkpoint_interval = 0 THEN "progress" ELSE "sleep"

Min(a, b) == IF a <= b THEN a ELSE b

\* _update_progress, lines 309-313, as it would be if it took the number of
\* lines for the percentage while total_iterations is not known
PercentageOfCount(prog, iter, total) ==
    IF total # 0 THEN Min(100, (iter * 100) \div total) ELSE Min(100, iter)

\* _update_progress, lines 309-313: progress_percentage is assigned only if
\* total_iterations is neither NULL nor 0, and keeps its value otherwise.  The
\* code takes the percentage in floating point, int((current / total) * 100),
\* which is the integer quotient but for the pairs whose product rounds below
\* it (29 of 50 gives 57); no row has a total_iterations, so that no behaviour
\* takes that branch.
Percentage(prog, iter, total) ==
    IF total # 0 THEN Min(100, (iter * 100) \div total) ELSE prog

\* _update_progress as it would be if its commit wrote the whole row of the
\* task's copy of the run, the status it loaded included
ReadLineWritingRow(i, tk, len0, decodes) ==
    LET r == tk.run
        line == procs[i].pipe > 0
        off == procs[i].out - procs[i].pipe
        len == IF line THEN Max(len0, off + 1) ELSE len0
    IN
    /\ procs' = [procs EXCEPT ![i].pipe = IF line THEN @ - 1 ELSE @]
    /\ IF line /\ ~decodes
       THEN /\ db' = [db EXCEPT ![r].status = Flush(tk.lstatus, FAILED, @),
                                ![r].err = "exc"]
            /\ tasks' = [tasks EXCEPT ![i] = [tk EXCEPT !.pc = "final", !.lstatus = FAILED]]
            /\ logf' = [logf EXCEPT ![r] = len0]
       ELSE /\ logf' = [logf EXCEPT ![r] = len]
            /\ db' = [db EXCEPT ![r].iter = len, ![r].status = tk.lstatus]
            /\ tasks' = [tasks EXCEPT ![i] = [tk EXCEPT !.pc = AfterProgress(len),
                                                        !.liter = len]]

\* _monitor_simulation, lines 251-257 with _update_progress: readline returns a
\* line, or b'' at end of file once the worker has exited; the line is written at
\* the task's own file position (off: the lines it has read so far, all written
\* at the same length); current_iteration becomes the number of lines
\* of the log file and is committed.  A line that cannot be decoded
\* (decodes = FALSE) raises inside the try: FAILED with the exception's text.
\* tk is the task as it reaches the read.
ReadLine(i, tk, len0, decodes) ==
    LET r == tk.run
        line == procs[i].pipe > 0
        off == procs[i].out - procs[i].pipe
        len == IF line THEN Max(len0, off + 1) ELSE len0
    IN
    /\ procs' = [procs EXCEPT ![i].pipe = IF line THEN @ - 1 ELSE @]
    /\ IF line /\ ~decodes
       THEN /\ db' = [db EXCEPT ![r].status = Flush(tk.lstatus, FAILED, @),
                                ![r].err = "exc"]
            /\ tasks' = [tasks EXCEPT ![i] = [tk EXCEPT !.pc = "final", !.lstatus = FAILED]]
            /\ logf' = [logf EXCEPT ![r] = len0]
       ELSE /\ logf' = [logf EXCEPT ![r] = len]
            /\ db' = [db EXCEPT ![r].iter = Flush(tk.liter, len, @),
                                ![r].prog = Percentage(@, len, db[r].total)]
            /\ tasks' = [tasks EXCEPT ![i] = [tk EXCEPT !.pc = AfterProgress(len),
                                                        !.liter = len]]

\* _monitor_simulation, lines 247-248 and 265-285: one pass of the loop from
\* process.poll().  On exit: the terminal status by return code, then the commit
\* of the finally clause.  Else the read, which blocks while the pipe is empty.
\* tk is the task and len0 the log's length as the pass begins.
Pass(i, tk, len0, decodes) ==
    LET r == tk.run
        new == IF procs[i].code = "ok" THEN COMPLETED ELSE FAILED
    IN  IF procs[i].state = "exited"
        THEN /\ procs' = [procs EXCEPT ![i].reaped = TRUE]
             /\ db' = [db EXCEPT ![r].status = Flush(tk.lstatus, new, @),
                                 ![r].completed = IF new = COMPLETED THEN TRUE ELSE @,
                                 ![r].err = IF new = FAILED THEN "stderr" ELSE @]
             /\ tasks' = [tasks EXCEPT ![i] = [tk EXCEPT !.pc = "final", !.lstatus = new]]
             /\ logf' = [logf EXCEPT ![r] = len0]
        ELSE IF procs[i].pipe = 0
        THEN /\ tasks' = [tasks EXCEPT ![i] = [tk EXCEPT !.pc = "readline"]]
             /\ logf' = [logf EXCEPT ![r] = len0]
             /\ UNCHANGED <<db, procs>>
        ELSE ReadLine(i, tk, len0, decodes)

\* _monitor_simulation, line 241 and the first pass of the loop: open(log, "w")
\* truncates the run's log file
MonitorOpen(i, decodes) ==
    LET r == tasks[i].run IN
    /\ LoopFree
    /\ tasks[i].pc = "spawned"
    /\ Exists(r) \/ tasks[i].cancel
    /\ IF tasks[i].cancel
       THEN /\ tasks' = Done(i)
            /\ procs' = Unread(i)
            /\ UNCHANGED <<db, logf>>
       ELSE Pass(i, tasks[i], 0, decodes)
    /\ UNCHANGED <<workspace, ckpts, running_simulations, simulation_tasks, req>>

\* _monitor_simulation, line 251: the blocked readline returns
MonitorRead(i, decodes) ==
    /\ tasks[i].pc = "readline"
    /\ Exists(tasks[i].run)
    /\ procs[i].pipe > 0 \/ procs[i].state = "exited"
    /\ ReadLine(i, tasks[i], logf[tasks[i].run], decodes)
    /\ UNCHANGED <<workspace, ckpts, running_simulations, simulation_tasks, req>>

\* _monitor_simulation, lines 260-263: the checkpoint that is due, from the
\* task's copy of the run, then the sleep
MonitorCadence(i) ==
    LET r == tasks[i].run IN
    /\ LoopFree
    /\ tasks[i].pc = "progress"
    /\ Exists(r) \/ tasks[i].cancel
    /\ IF tasks[i].cancel
       THEN /\ tasks' = Cancelled(i)
            /\ UNCHANGED ckpts
       ELSE /\ ckpts' = [ckpts EXCEPT ![r] =
                            Append(@, Checkpoint(tasks[i].liter, tasks[i].lstatus))]
            /\ tasks' = [tasks EXCEPT ![i].pc = "sleep"]
    /\ UNCHANGED <<workspace, db, logf, running_simulations, simulation_tasks, procs, req>>

\* _monitor_simulation: the loop resumed after asyncio.sleep(0.1)
MonitorWake(i, decodes) ==
    /\ LoopFree
    /\ tasks[i].pc = "sleep"
    /\ Exists(tasks[i].run) \/ tasks[i].cancel
    /\ IF tasks[i].cancel
       THEN /\ tasks' = Cancelled(i)
            /\ UNCHANGED <<db, procs, logf>>
       ELSE Pass(i, tasks[i], logf[tasks[i].run], decodes)
    /\ UNCHANGED <<workspace, ckpts, running_simulations, simulation_tasks, req>>

\* _monitor_simulation, lines 287-289: the registry key of the run is deleted,
\* whichever process it holds.  CancelledError thrown at the commit of the
\* finally clause skips the deletion.
MonitorCleanup(i) ==
    LET r == tasks[i].run IN
    /\ LoopFree
    /\ tasks[i].pc \in {"final", "final_c"}
    /\ tasks' = Done(i)
    /\ procs' = Unread(i)
    /\ running_simulations' = IF tasks[i].cancel THEN running_simulations
                              ELSE [running_simulations EXCEPT ![r] = 0]
    /\ UNCHANGED <<workspace, db, ckpts, logf, simulation_tasks, req>>

\* _run_simulation_process, lines 218-231: FAILED and the message are committed;
\* if that commit raises too (committed = FALSE) the bare except drops the error
HandlerCommit(i, committed) ==
    LET r == tasks[i].run IN
    /\ LoopFree
    /\ tasks[i].pc = "hload"
    /\ tasks' = Done(i)
    /\ db' = IF tasks[i].cancel \/ ~committed THEN db
             ELSE Persist(r, [db EXCEPT ![r].status = Flush(tasks[i].lstatus, FAILED, @),
                                         ![r].err = "exc"])
    /\ UNCHANGED <<workspace, ckpts, logf, running_simulations, simulation_tasks, procs, req>>

\* ------------------------------------------------------------------- worker

\* the worker writes a line to its standard output
WorkerEmit(i) ==
    /\ procs[i].state = "running"
    /\ tasks[i].pc # "done"
    /\ procs' = [procs EXCEPT ![i].pipe = @ + 1, ![i].out = @ + 1]
    /\ UNCHANGED <<workspace, db, ckpts, logf, running_simulations, simulation_tasks, tasks, req>>

\* the worker exits by itself, with return code 0 ("ok") or not ("err")
WorkerExit(i, code) ==
    /\ procs[i].state = "running"
    /\ procs' = [procs EXCEPT ![i].state = "exited", ![i].code = code]
    /\ UNCHANGED <<workspace, db, ckpts, logf, running_simulations, simulation_tasks, tasks, req>>

\* ------------------------------------------------------------ specification

\* the tasks created and the start requests that may still create one
Starting == Len(tasks) + Cardinality({q \in Reqs : req[q].op = "start"})

InFlight == Cardinality({q \in Reqs : req[q].pc # "idle"})

Created == {r \in RunIds : Exists(r)}

\* the identifiers drawn so far: those of the runs in the table and of the runs
\* deleted
Used == {r \in RunIds : Exists(r) \/ db[r].gone}

Ops == {"start", "pause", "resume", "stop"}

\* the identifiers requests name: those drawn so far and one unknown identifier
Named == {r \in RunIds : r <= Cardinality(Used) + 1}

Alive(i) == procs[i].state \in {"running", "stopped"}

\* POST /simulations/
Creation ==
    \E r \in RunIds : Cardinality(Created) < MaxRuns /\ Create(r)

\* POST /simulations/{id}/control with checkpoint_before_action left at its
\* default: at most T tasks created, at most Q requests in flight
Control(T, Q) ==
    \/ \E op \in Ops, r \in Named : Reject(op, r)
    \/ \E q \in Reqs, op \in Ops, r \in Named :
          /\ InFlight < Q
          /\ op = "start" => Starting < T
          /\ ReqLoad(q, op, r, FALSE)
    \/ \E q \in Reqs : StartCommit(q)
    \/ \E q \in Reqs : StartSpawnTask(q)
    \/ \E q \in Reqs : PauseCheck(q)
    \/ \E q \in Reqs : ResumeCommit(q)
    \/ \E q \in Reqs, honours \in BOOLEAN : StopCommit(q, honours)
    \/ \E q \in Reqs : SignalError(q)

\* pause with checkpoint_before_action set, while the run has fewer than K
\* checkpoints
CheckpointedPause(Q, K) ==
    \/ \E q \in Reqs, r \in Named :
          /\ InFlight < Q
          /\ Len(ckpts[r]) < K
          /\ ReqLoad(q, "pause", r, TRUE)
    \/ \E q \in Reqs : PauseAfterCheckpoint(q)

\* the steps of the monitoring tasks
Monitors ==
    \/ \E i \in Tasks : TaskLoad(i)
    \/ \E i \in Tasks, spawned \in BOOLEAN : TaskSpawn(i, spawned)
    \/ \E i \in Tasks, decodes \in BOOLEAN : MonitorOpen(i, decodes)
    \/ \E i \in Tasks, decodes \in BOOLEAN : MonitorRead(i, decodes)
    \/ \E i \in Tasks : MonitorCadence(i)
    \/ \E i \in Tasks, decodes \in BOOLEAN : MonitorWake(i, decodes)
    \/ \E i \in Tasks : MonitorCleanup(i)
    \/ \E i \in Tasks, committed \in BOOLEAN : HandlerCommit(i, committed)

\* the steps of the worker processes
Workers ==
    \/ \E i \in Tasks : procs[i].out < MaxLines /\ WorkerEmit(i)
    \/ \E i \in Tasks, code \in {"ok", "err"} : WorkerExit(i, code)

Next == Creation \/ Control(MaxTasks, MaxReq) \/ Monitors \/ Workers

\* one run, started up to MaxTasks times, its control calls one after the other
Spec == Init /\ [][Next]_vars

NextRace ==
    \/ Creation
    \/ Control(RaceTasks, RaceReq)
    \/ CheckpointedPause(RaceReq, RaceCkpt)
    \/ Monitors
    \/ Workers

\* one run, its control calls overlapping
SpecRace == Init /\ [][NextRace]_vars

\* a request in flight goes on when the loop resumes it
RequestStep(q) ==
    \/ StartCommit(q)
    \/ StartSpawnTask(q)
    \/ PauseCheck(q)
    \/ PauseAfterCheckpoint(q)
    \/ ResumeCommit(q)
    \/ \E honours \in BOOLEAN : StopCommit(q, honours)
    \/ SignalError(q)

\* a monitoring task goes on when the loop resumes it, or its read returns
MonitorStep(i) ==
    /\ i \in Tasks
    /\ \/ TaskLoad(i)
       \/ \E spawned \in BOOLEAN : TaskSpawn(i, spawned)
       \/ \E decodes \in BOOLEAN : MonitorOpen(i, decodes)
       \/ \E decodes \in BOOLEAN : MonitorRead(i, decodes)
       \/ MonitorCadence(i)
       \/ \E decodes \in BOOLEAN : MonitorWake(i, decodes)
       \/ MonitorCleanup(i)
       \/ \E committed \in BOOLEAN : HandlerCommit(i, committed)

\* asyncio runs every coroutine that is ready: no request in flight and no
\* monitoring task waits forever for its turn.  Nothing is assumed of the
\* workers or of the arrival of requests.
LoopFairness ==
    /\ \A q \in Reqs : WF_vars(RequestStep(q))
    /\ \A i \in 1..RaceTasks : WF_vars(MonitorStep(i))

\* SpecRace under the loop's scheduling
SpecFair == SpecRace /\ LoopFairness

\* max_concurrent_simulations + 1 runs created, none started
InitCap ==
    /\ db = [r \in RunIds |-> NewRow]
    /\ ckpts = [r \in RunIds |-> <<>>]
    /\ logf = [r \in RunIds |-> 0]
    /\ running_simulations = [r \in RunIds |-> 0]
    /\ simulation_tasks = [r \in RunIds |-> 0]
    /\ tasks = <<>>
    /\ procs = <<>>
    /\ req = [q \in Reqs |-> IdleReq]
    /\ workspace = NoRequest

\* each run is started once, its worker writes and keeps running
NextCap ==
    \/ \E q \in Reqs, r \in RunIds :
          /\ InFlight < MaxReq
          /\ db[r].status = PENDING
          /\ ReqLoad(q, "start", r, FALSE)
    \/ \E q \in Reqs : StartCommit(q)
    \/ \E q \in Reqs : StartSpawnTask(q)
    \/ \E i \in Tasks : TaskLoad(i)
    \/ \E i \in Tasks : TaskSpawn(i, TRUE)
    \/ \E i \in Tasks : MonitorOpen(i, TRUE)
    \/ \E i \in Tasks : MonitorRead(i, TRUE)
    \/ \E i \in Tasks : MonitorWake(i, TRUE)
    \/ \E i \in Tasks : procs[i].out < MaxLines /\ WorkerEmit(i)

\* the starts of max_concurrent_simulations + 1 runs
SpecCap == InitCap /\ [][NextCap]_vars

\* ------------------------------------------------------------------- claims

\* the worker processes of run r that are alive
LiveProcs(r) == {i \in Tasks : tasks[i].run = r /\ Alive(i)}

\* C1: a start request gets past the status check, to commit RUNNING and create
\* a monitoring task, only for a run it loaded in status Pending
C1_StartOnlyFromPending ==
    \A q \in Reqs : req[q].op = "start" => req[q].st = PENDING

\* C2: once the persisted status of a run is Completed, Failed or Cancelled, no
\* step of a request or of a monitoring task changes it
C2_TerminalIsFinal ==
    [][\A r \in RunIds : db[r].status \in Terminal => db'[r].status = db[r].status]_vars

\* C3: a run has at most one live worker process
C3_AtMostOneLiveProcess ==
    \A r \in RunIds : Cardinality(LiveProcs(r)) <= 1

\* C4: a stop request gets past the status check only for a run it loaded as
\* Running or Paused; when it ends, either the persisted status is Cancelled and
\* the registered process has exited (on SIGTERM or killed), or it has raised and
\* nothing but the request has changed
C4_StopEndsCancelled ==
    [][\A q \in Reqs :
          /\ (req[q].pc = "idle" /\ req'[q].op = "stop")
                => db[req'[q].run].status \in {RUNNING, PAUSED}
          /\ (req[q].op = "stop" /\ req'[q].pc = "idle")
                => LET r == req[q].run
                       p == running_simulations[r]
                   IN  \/ /\ db'[r].status = CANCELLED
                          /\ running_simulations'[r] = 0
                          /\ p # 0 => procs'[p].state = "exited"
                       \/ UNCHANGED <<db, ckpts, logf, running_simulations,
                                      simulation_tasks, tasks, procs>>
      ]_vars

\* C4 witness: the run is Cancelled after one stop whose worker left on SIGTERM
\* and one whose worker had to be killed
C4_Witness ==
    \E i, j \in Tasks :
       /\ tasks[i].run = tasks[j].run
       /\ procs[i].code = "term" /\ procs[j].code = "kill"
       /\ db[tasks[i].run].status = CANCELLED

\* C5: the outcome of control calls that overlap is the outcome of some order of
\* them.  When the calls of a run are executed one after the other, a run that
\* is Running or Paused has its monitoring task registered, or a start that has
\* committed RUNNING is about to register it: stop alone removes the task, and
\* leaves the run Cancelled
C5_SerialOutcome ==
    \A r \in RunIds :
       db[r].status \in {RUNNING, PAUSED}
          => \/ simulation_tasks[r] # 0
             \/ \E q \in Reqs : req[q].op = "start" /\ req[q].run = r /\ req[q].pc = "committed"

\* a run recorded as Running without a live registered worker
Stuck(r) ==
    /\ db[r].status = RUNNING
    /\ ~(running_simulations[r] # 0 /\ Alive(running_simulations[r]))

\* C6: no run stays Running forever without a live registered worker
C6_NeverStuckRunning ==
    \A r \in RunIds : []<>(~Stuck(r))

\* the runs with a live worker process
LiveRuns == {r \in RunIds : LiveProcs(r) # {}}

\* C7: the runs with a live worker never outnumber max_concurrent_simulations
C7_CapEnforced ==
    Cardinality(LiveRuns) <= max_concurrent_simulations

\* C8: a control operation that fails has written nothing: no request raises
\* after it has committed a checkpoint
C8_FailureIsAtomic ==
    [][\A q \in Reqs : SignalError(q) => req[q].pc = "loaded"]_vars

\* C9: every live worker process is the one the registry holds for its run
C9_LiveProcessIsRegistered ==
    \A i \in Tasks : Alive(i) => running_simulations[tasks[i].run] = i

\* C10: when a start of a run it loaded as Pending returns, the run is Running
\* and the registry holds a process for it
C10_StartReturnsWithProcess ==
    [][\A q \in Reqs :
          (StartSpawnTask(q) /\ req[q].st = PENDING)
             => /\ db'[req[q].run].status = RUNNING
                /\ running_simulations'[req[q].run] # 0
      ]_vars

\* a run nobody is working on: no request for it is in flight and every
\* monitoring task created for it has returned
Quiet(r) ==
    /\ \A q \in Reqs : req[q].run # r
    /\ \A i \in Tasks : tasks[i].run = r => tasks[i].pc = "done"

\* the terminal status of run r was recorded by stop (CANCELLED) or by the
\* monitoring task's reconciliation (COMPLETED, or FAILED with the text of the
\* worker's standard error)
Reconciled(r) ==
    \/ db[r].status \in {CANCELLED, COMPLETED}
    \/ db[r].status = FAILED /\ db[r].err = "stderr"

\* C11: once a run has reached a terminal status through stop or through the
\* monitoring task's reconciliation, and that stop or task has finished, the
\* registry holds neither a process nor a monitoring task for the run
C11_TerminalLeavesNoEntry ==
    \A r \in RunIds :
       (Reconciled(r) /\ Quiet(r))
          => running_simulations[r] = 0 /\ simulation_tasks[r] = 0

\* the step is the terminal reconciliation of task i: process.wait() reaps the
\* worker that has exited, and the status by return code is committed
Reconciles(i) ==
    /\ procs[i].state = "exited" /\ ~procs[i].reaped
    /\ procs'[i].reaped
    /\ tasks[i].pc # "final" /\ tasks'[i].pc = "final"

\* C12: the reconciliation of a worker that exited with code 0, of a run that is
\* Running, records Completed and completed_at; and a Completed run always has
\* completed_at set
C12_ExitZeroCompletes ==
    /\ [](\A r \in RunIds : db[r].status = COMPLETED => db[r].completed)
    /\ [][\A i \in Tasks :
             (Reconciles(i) /\ procs[i].code = "ok" /\ db[tasks[i].run].status = RUNNING)
                => /\ db'[tasks[i].run].status = COMPLETED
                   /\ db'[tasks[i].run].completed
         ]_vars

\* C13: the reconciliation of a worker that exited with a code other than 0, of a
\* run that is Running, records Failed and the text of the worker's standard
\* error as error_message
C13_ExitNonZeroFails ==
    [][\A i \in Tasks :
          (Reconciles(i) /\ procs[i].code # "ok" /\ db[tasks[i].run].status = RUNNING)
             => /\ db'[tasks[i].run].status = FAILED
                /\ db'[tasks[i].run].err = "stderr"
      ]_vars

\* C14: when the monitoring task reconciles a worker that wrote its lines and
\* exited with code 0, current_iteration is the number of lines the worker wrote
C14_AllOutputCounted ==
    [][\A i \in Tasks :
          (Reconciles(i) /\ procs[i].code = "ok")
             => db'[tasks[i].run].iter = procs[i].out
      ]_vars

\* C15: no step lowers the persisted current_iteration of a run
C15_IterationNeverDecreases ==
    [][\A r \in RunIds : db'[r].iter >= db[r].iter]_vars

\* C16: the checkpoint records of a run, in creation order, have non-decreasing
\* checkpoint_iteration
C16_CheckpointsInOrder ==
    \A r \in RunIds : \A k \in 1..(Len(ckpts[r]) - 1) :
       ckpts[r][k].iter <= ckpts[r][k + 1].iter

\* C17: a pause records Paused only for a run with a registered process, which
\* it has suspended; no worker of a Paused run is executing
C17_PausedMeansSuspended ==
    /\ [](\A i \in Tasks :
             db[tasks[i].run].status = PAUSED => procs[i].state # "running")
    /\ [][\A q \in Reqs :
             (req[q].op = "pause" /\ req'[q].pc = "idle" /\ db'[req[q].run].status = PAUSED)
                => running_simulations[req[q].run] # 0
         ]_vars

\* C18: when a pause that asked for a checkpoint suspends the worker and records
\* Paused, the iteration of the checkpoint it created is the run's persisted
\* current_iteration
C18_CheckpointIsPrePause ==
    [][\A q \in Reqs :
          PauseAfterCheckpoint(q) => req[q].it = db[req[q].run].iter
      ]_vars

\* C19: a pause that suspends the registered process of a Running run, and the
\* resume that follows it, leave current_iteration as it is; the resume records
\* Running, with a current_iteration not lower than the one the pause had loaded
C19_PauseResumeKeepsProgress ==
    [][\A q \in Reqs :
          /\ (req[q].op = "pause" /\ req'[q].pc = "idle")
                => db'[req[q].run].iter = db[req[q].run].iter
          /\ ResumeCommit(q)
                => /\ db'[req[q].run].status = RUNNING
                   /\ db'[req[q].run].iter = db[req[q].run].iter
                   /\ db'[req[q].run].iter >= db[req[q].run].piter
      ]_vars

\* C20: a pause gets past its check, to create a checkpoint, signal the process
\* and record Paused, only for a run whose persisted status it loaded as
\* Running; for an unknown identifier and for every other status it is refused
\* before anything is written
C20_PauseOnlyWhenRunning ==
    /\ [](\A q \in Reqs : req[q].op = "pause" => req[q].st = RUNNING)
    /\ [][\A q \in Reqs :
             (req[q].pc = "idle" /\ req'[q].op = "pause")
                => /\ db[req'[q].run].status = RUNNING
                   /\ req'[q].st = RUNNING
         ]_vars

\* C20 witness: a run is Paused, or over, with checkpoints, and a pause of it
\* is refused, as is the pause of the unknown identifier
C20_Witness ==
    \E r \in Created :
       /\ db[r].status \in Terminal \cup {PAUSED}
       /\ Len(ckpts[r]) > 0
       /\ (ENABLED Reject("pause", r)) /\ ENABLED Reject("pause", Cardinality(Created) + 1)

\* C21: a resume gets past its check only for a run whose persisted status it
\* loaded as Paused.  When it ends it has recorded Running, the registered
\* process, if it was suspended, runs again, and no other process is touched
\* (none at all when no process is registered); it raises instead, with nothing
\* written, only for a run that is no longer Paused
C21_ResumeOnlyWhenPaused ==
    [][\A q \in Reqs :
          /\ (req[q].pc = "idle" /\ req'[q].op = "resume")
                => db[req'[q].run].status = PAUSED
          /\ (req[q].op = "resume" /\ req'[q].pc = "idle")
                => LET r == req[q].run
                       p == running_simulations[r]
                   IN  \/ /\ db'[r].status = RUNNING
                          /\ \A i \in Tasks :
                                procs'[i] = IF i = p /\ procs[i].state = "stopped"
                                            THEN [procs[i] EXCEPT !.state = "running"]
                                            ELSE procs[i]
                       \/ /\ db[r].status # PAUSED
                          /\ UNCHANGED <<db, ckpts, logf, running_simulations,
                                         simulation_tasks, tasks, procs>>
      ]_vars

\* ------------------------------------------------------------------ restart

\* The server process ends and is started again.  The simulations and
\* simulation_checkpoints tables and the log files persist.  The module's
\* SimulationManager is constructed with both registries empty, and lifespan's
\* startup runs init_db (create_all: no row is read or written) and nothing
\* else.  The coroutines of the old process are gone, requests and monitoring
\* tasks alike; the workers, each in a session of its own (preexec_fn=os.setsid),
\* are not signalled, and nobody reads their pipes any more.
Restart ==
    /\ running_simulations' = [r \in RunIds |-> 0]
    /\ simulation_tasks' = [r \in RunIds |-> 0]
    /\ tasks' = [i \in Tasks |-> [NewTask(tasks[i].run) EXCEPT !.pc = "done"]]
    /\ procs' = [i \in Tasks |-> [procs[i] EXCEPT !.pipe = 0, !.out = 0]]
    /\ req' = [q \in Reqs |-> IdleReq]
    /\ UNCHANGED <<workspace, db, ckpts, logf>>

NextRestart ==
    \/ Creation
    \/ Control(RaceTasks, MaxReq)
    \/ Monitors
    \/ Workers
    \/ Restart

\* one run, started once, the server restarted at any moment
SpecRestart == Init /\ [][NextRestart]_vars

\* -------------------------------------------------------- update and delete

\* the values of config_content an update may carry ("none": the field is left
\* out or empty)
Contents == {"none", "created", "edited"}

\* update_simulation, lines 103-119, for a run loaded as PENDING: the new
\* content is set on the row and written to the file at config_file_path, then
\* the commit.  The file is written before the commit, which raises when the row
\* was deleted meanwhile.  status is not assigned.
UpdateCommit(q, content) ==
    LET r == req[q].run
        set == IF content = "none" THEN req[q].cfg ELSE content
    IN
    /\ LoopFree
    /\ req[q].op = "update" /\ req[q].pc = "loaded"
    /\ db' = [db EXCEPT ![r].art = IF content = "none" THEN @ ELSE content,
                        ![r].cfg = IF Exists(r) THEN Flush(req[q].cfg, set, @) ELSE @]
    /\ req' = [req EXCEPT ![q] = IdleReq]
    /\ UNCHANGED <<workspace, ckpts, logf, running_simulations, simulation_tasks, tasks, procs>>

\* delete_simulation, line 246: session.delete loads the checkpoints of the run
\* for the cascade of models/simulation.py line 58 (nck: the checkpoint rows
\* created for the run up to this select)
DeleteCascade(q) ==
    LET r == req[q].run IN
    /\ LoopFree
    /\ req[q].op = "delete" /\ req[q].pc = "loaded"
    /\ req' = [req EXCEPT ![q].pc = "cascade", ![q].nck = Len(ckpts[r]) + db[r].ndel]
    /\ UNCHANGED <<workspace, db, ckpts, logf, running_simulations, simulation_tasks, tasks, procs>>

\* the checkpoint rows of run r that a delete which loaded the first n of them
\* leaves in the table
LeftBy(r, n) ==
    LET k == Max(0, n - db[r].ndel)
    IN  SubSeq(ckpts[r], k + 1, Len(ckpts[r]))

\* delete_simulation as it would be without the cascade on Simulation.checkpoints:
\* only the row of the run is deleted
DeleteCommitRowOnly(q) ==
    LET r == req[q].run IN
    /\ LoopFree
    /\ req[q].op = "delete" /\ req[q].pc = "cascade"
    /\ db' = [db EXCEPT ![r] = [NoRow EXCEPT !.gone = TRUE, !.art = db[r].art,
                                              !.ndel = db[r].ndel]]
    /\ req' = [req EXCEPT ![q] = IdleReq]
    /\ UNCHANGED <<workspace, ckpts, logf, running_simulations, simulation_tasks, tasks, procs>>

\* delete_simulation, line 247: the commit deletes the checkpoint rows that were
\* loaded and the row of the run.  Files are not removed.  A row already deleted
\* by another request is not an error.
DeleteCommit(q) ==
    LET r == req[q].run
        left == LeftBy(r, req[q].nck)
        n == db[r].ndel + Len(ckpts[r]) - Len(left)
    IN
    /\ LoopFree
    /\ req[q].op = "delete" /\ req[q].pc = "cascade"
    /\ ckpts' = [ckpts EXCEPT ![r] = left]
    /\ db' = [db EXCEPT ![r] = [NoRow EXCEPT !.gone = TRUE, !.art = db[r].art, !.ndel = n]]
    /\ req' = [req EXCEPT ![q] = IdleReq]
    /\ UNCHANGED <<workspace, logf, running_simulations, simulation_tasks, tasks, procs>>

\* start_simulation for a run that was deleted after the request had loaded it:
\* the commit of line 113 raises StaleDataError, the refresh of line 116
\* InvalidRequestError; the request ends (HTTP 500) and no task is created
GoneRequest(q) ==
    /\ LoopFree
    /\ req[q].op = "start" /\ req[q].pc \in {"loaded", "committed"}
    /\ ~Exists(req[q].run)
    /\ req' = [req EXCEPT ![q] = IdleReq]
    /\ UNCHANGED <<workspace, db, ckpts, logf, running_simulations, simulation_tasks, tasks, procs>>

\* A monitoring task whose run was deleted.  Its select finds no row and it
\* returns (lines 145-147).  Later, the commit of process_id (line 213) raises
\* after Popen and the registration, and the handler of line 218 finds no row.
\* Inside _monitor_simulation the next database operation raises, the commit of
\* the finally clause raises again and the cleanup of lines 287-289 is skipped:
\* the task ends, the registry and the worker stay as they are.
GoneTask(i, spawned) ==
    LET r == tasks[i].run
        pc == tasks[i].pc
    IN
    /\ ~Exists(r) /\ ~tasks[i].cancel
    /\ IF pc = "readline"
       THEN procs[i].pipe > 0 \/ procs[i].state = "exited"
       ELSE LoopFree /\ pc \in {"new", "load", "spawned", "progress", "sleep"}
    /\ IF pc = "new"
       THEN /\ tasks' = Done(i)
            /\ UNCHANGED <<procs, running_simulations>>
       ELSE IF pc = "load"
       THEN /\ tasks' = [tasks EXCEPT ![i].pc = "hload"]
            /\ procs' = IF spawned THEN [procs EXCEPT ![i].state = "running"] ELSE procs
            /\ running_simulations' = IF spawned
                                      THEN [running_simulations EXCEPT ![r] = i]
                                      ELSE running_simulations
       ELSE IF pc \in {"spawned", "sleep"} /\ Alive(i) /\ procs[i].pipe = 0
       THEN /\ tasks' = [tasks EXCEPT ![i].pc = "readline"]
            /\ UNCHANGED <<procs, running_simulations>>
       ELSE /\ tasks' = Done(i)
            /\ procs' = [Unread(i) EXCEPT ![i].reaped =
                            IF pc # "progress" /\ procs[i].state = "exited" THEN TRUE ELSE @]
            /\ UNCHANGED running_simulations
    /\ UNCHANGED <<workspace, db, ckpts, logf, simulation_tasks, req>>

\* PATCH and DELETE /simulations/{id}: at most Q requests in flight
Edits(Q) ==
    \/ \E op \in {"update", "delete"}, r \in Named : Reject(op, r)
    \/ \E q \in Reqs, op \in {"update", "delete"}, r \in Named :
          /\ InFlight < Q
          /\ ReqLoad(q, op, r, FALSE)
    \/ \E q \in Reqs, content \in Contents : UpdateCommit(q, content)
    \/ \E q \in Reqs : DeleteCascade(q)
    \/ \E q \in Reqs : DeleteCommit(q)

\* the steps of the requests and tasks whose run was deleted under them
Gone ==
    \/ \E q \in Reqs : GoneRequest(q)
    \/ \E i \in Tasks, spawned \in BOOLEAN : GoneTask(i, spawned)

NextEdit ==
    \/ \E r \in RunIds : Cardinality(Used) < EditRuns /\ Create(r)
    \/ Control(RaceTasks, RaceReq)
    \/ Monitors
    \/ Workers
    \/ Edits(RaceReq)
    \/ Gone

\* the runs created, updated, controlled and deleted by requests that overlap
SpecEdit == Init /\ [][NextEdit]_vars

NextCreate ==
    \/ \E r \in RunIds : Cardinality(Used) < CreateRuns /\ Create(r)
    \/ Control(RaceTasks, MaxReq)
    \/ Monitors
    \/ Workers
    \/ Edits(MaxReq)

\* several runs created while one of them is started, executes and is deleted,
\* the requests one after the other
SpecCreate == Init /\ [][NextCreate]_vars

\* C22: when the server has started again, every run that was persisted as
\* Running is Failed with the message of an orphaned run: no run is Running
\* without an entry in the registry
C22_RestartFailsOrphans ==
    [][Restart =>
          \A r \in RunIds :
             /\ db[r].status = RUNNING
                   => db'[r].status = FAILED /\ db'[r].err = "orphaned"
             /\ ~(db'[r].status = RUNNING /\ running_simulations'[r] = 0)
      ]_vars

\* C23: the monitoring task never holds the event loop for good: whenever a
\* task waits for output of its worker, the loop is free again later, so that
\* requests and the other tasks get their turn
C23_MonitorKeepsYielding ==
    (~LoopFree) ~> LoopFree

\* C24: a stop cancels the monitoring task of the run only after it has
\* signalled the registered process and, past the grace period, killed it: when
\* a stop has cancelled a task, the process the registry held for the run has
\* exited, on the terminate signal or killed if it was alive
C24_CancelAfterSignal ==
    [][\A q \in Reqs : \A t \in Tasks :
          (req[q].op = "stop" /\ req'[q].pc = "idle" /\ ~tasks[t].cancel /\ tasks'[t].cancel)
             => LET p == running_simulations[req[q].run]
                IN  p # 0 => /\ procs'[p].state = "exited"
                             /\ Alive(p) => procs'[p].code \in {"term", "kill"}
      ]_vars

\* C24 witness: a stop has cancelled the monitoring task of a worker it had to
\* kill, and the task has not run since
C24_Witness ==
    \E i \in Tasks :
       /\ tasks[i].cancel
       /\ procs[i].code = "kill"
       /\ simulation_tasks[tasks[i].run] = 0 /\ running_simulations[tasks[i].run] = 0

C27_CreateIsPendingAndFresh ==
    [][\A r \in RunIds :
          (~Exists(r) /\ db'[r].status # "none")
             => /\ db'[r].status = PENDING /\ db'[r].iter = 0 /\ db'[r].pid = 0
                /\ ~db[r].gone /\ ~db'[r].gone
                /\ \A s \in RunIds \ {r} : db'[s] = db[s]
                /\ running_simulations'[r] = 0 /\ simulation_tasks'[r] = 0
                /\ UNCHANGED <<ckpts, logf, running_simulations, simulation_tasks,
                               tasks, procs, req>>
      ]_vars

\* C27 witness: a run was created, Pending, while an older run has a live
\* registered worker
C27_Witness ==
    \E r, s \in Created :
       /\ db[r].status = PENDING /\ db[r].iter = 0 /\ db[r].pid = 0
       /\ running_simulations[r] = 0 /\ simulation_tasks[r] = 0
       /\ s < r
       /\ running_simulations[s] # 0 /\ Alive(running_simulations[s])

\* ------------------------------------------------------------ materialization

\* create_simulation (api/simulations.py and the manager) for the request under
\* study, in one step: the commit of line 85 is its only await before the row
\* is in the table.  The directory is made (line 49) before the template is
\* parsed (line 55); a template that does not parse raises there, the endpoint
\* answers 400 and nothing is removed.  Otherwise the artifact goes to
\* config.xml and to config_content of the row: validate() is not called.
CreateFrom(r) ==
    LET w == workspace
        processed == Materialize(w.config_content.tree, w.users, w.topics, r)
    IN
    /\ LoopFree
    /\ w.pc = "request"
    /\ db[r].status = "none" /\ ~db[r].gone
    /\ \A s \in RunIds : s < r => (db[s].status # "none" \/ db[s].gone)
    /\ IF w.config_content.kind # "xml"
       THEN /\ workspace' = [w EXCEPT !.pc = "raised", !.run = r, !.dir = TRUE]
            /\ UNCHANGED db
       ELSE /\ workspace' = [w EXCEPT !.pc = "created", !.run = r, !.dir = TRUE,
                                      !.file = processed, !.row = processed]
            /\ db' = [db EXCEPT ![r] = NewRow]
    /\ UNCHANGED <<ckpts, logf, running_simulations, simulation_tasks, tasks, procs, req>>

\* XMLConfigManager(text of config.xml).get_users() and .get_topics()
ReadBack ==
    /\ workspace.pc = "created"
    /\ workspace.file.kind = "xml"
    /\ workspace' = [workspace EXCEPT !.pc = "read",
                                      !.got_users = get_users(workspace.file.tree),
                                      !.got_topics = get_topics(workspace.file.tree)]
    /\ UNCHANGED <<db, ckpts, logf, running_simulations, simulation_tasks, tasks, procs, req>>

\* the ids a template carries
TemplateIds == {<<>>, << <<"u">> >>}

\* the documents a request carries as config_content: one that does not parse,
\* and those with or without each of the three elements
Templates ==
    {Malformed} \cup
    {to_string([users |-> u, topics |-> t, output |-> o]) :
        u \in {NoSection} \cup {Section(ids) : ids \in TemplateIds},
        t \in {NoSection} \cup {Section(ids) : ids \in TemplateIds},
        o \in {NoOutput} \cup {Output(a, c) : a, c \in {NoPath, TemplatePath}}}

\* SimulationCreate.users and .topics: left out, or a list of strings
Overrides == {NotGiven} \cup {Given(ids) : ids \in Lists(MaxIds)}

\* no run yet, and one create request received
InitMaterialize ==
    /\ db = [r \in RunIds |-> NoRow]
    /\ ckpts = [r \in RunIds |-> <<>>]
    /\ logf = [r \in RunIds |-> 0]
    /\ running_simulations = [r \in RunIds |-> 0]
    /\ simulation_tasks = [r \in RunIds |-> 0]
    /\ tasks = <<>>
    /\ procs = <<>>
    /\ req = [q \in Reqs |-> IdleReq]
    /\ workspace \in {[NoRequest EXCEPT !.pc = "request", !.config_content = c,
                                        !.users = u, !.topics = t] :
                         c \in Templates, u \in Overrides, t \in Overrides}

NextMaterialize ==
    \/ \E r \in RunIds : CreateFrom(r)
    \/ ReadBack

\* one create, of any template with any overrides, and its artifact read back
SpecMaterialize == InitMaterialize /\ [][NextMaterialize]_vars

\* C28: a create whose template does not parse, or lacks the users, the topics
\* or the output element, is answered with an error; and a create answered with
\* an error leaves no row, no workspace directory and no config.xml
C28_CreateFailsCleanly ==
    LET w == workspace IN
    /\ (w.pc \in {"created", "raised", "read"}
          /\ (w.config_content.kind # "xml" \/ ~validate(w.config_content.tree)))
       => w.pc = "raised"
    /\ w.pc = "raised"
       => /\ \A r \in RunIds : ~Exists(r)
          /\ ~w.dir
          /\ w.file = NoDoc

\* C29: after a create from a template that has the users, topics and output
\* elements, with both override lists given, the users element of config.xml
\* holds the ids of the users list in order and the topics element those of
\* the topics list, the output path of the document (the directory attribute,
\* else the <directory> child) is the resolved output directory of the run, and
\* get_users and get_topics on the file return the two lists
C29_OverridesMaterialized ==
    LET w == workspace
        doc == w.file.tree
        path == IF doc.output.attr # NoPath THEN doc.output.attr ELSE doc.output.child
    IN
    (/\ w.config_content.kind = "xml" /\ validate(w.config_content.tree)
     /\ w.users.given /\ w.topics.given)
    => /\ w.pc \in {"created", "read"}
          => /\ w.file.kind = "xml"
             /\ doc.users = Section(w.users.ids)
             /\ doc.topics = Section(w.topics.ids)
             /\ path = resolve(OutputDir(w.run))
       /\ w.pc = "read"
          => /\ w.got_users = w.users.ids
             /\ w.got_topics = w.topics.ids

NextKeep ==
    \/ \E r \in RunIds : Cardinality(Used) < EditRuns /\ Create(r)
    \/ Control(RaceTasks, MaxReq)
    \/ CheckpointedPause(MaxReq, RaceCkpt)
    \/ Monitors
    \/ Workers
    \/ Edits(MaxReq)

SpecKeep == Init /\ [][NextKeep]_vars

\* list a is the beginning of list b
IsPrefix(a, b) == Len(a) <= Len(b) /\ SubSeq(b, 1, Len(a)) = a

\* C31: in every step the checkpoint records of a run stay as they are, each
\* with its iteration and its payload, and new ones are added after them; the
\* only step that removes records is the commit of a delete of their run, which
\* removes the row of the run with them (unless an overlapping delete has
\* removed it already) and leaves the records it does not remove (those added
\* since it loaded the run's checkpoints) as they are
C31_CheckpointsAppendOnly ==
    [][\A r \in RunIds :
          \/ IsPrefix(ckpts[r], ckpts'[r])
          \/ /\ \E q \in Reqs : req[q].op = "delete" /\ req[q].run = r /\ req'[q].pc = "idle"
             /\ db'[r].status = "none"
             /\ \E k \in 0..Len(ckpts[r]) :
                   ckpts'[r] = SubSeq(ckpts[r], k + 1, Len(ckpts[r]))
      ]_vars

\* C31 witness: a run has two checkpoint records, the first written by a pause
\* and the second by the monitoring task, and has been stopped since
C31_Witness ==
    \E r \in Created :
       /\ Len(ckpts[r]) >= 2
       /\ db[r].status = CANCELLED

\* C32: a run has an error message only while its status is Failed
C32_ErrorOnlyWhenFailed ==
    \A r \in Created : db[r].err # "none" => db[r].status = FAILED

\* C33: a run whose status is Completed, Failed or Cancelled has no process
\* identifier
C33_NoProcessIdWhenTerminal ==
    \A r \in Created : db[r].status \in Terminal => db[r].pid = 0

\* C34: a pass of the monitoring loop goes on to create a checkpoint only if
\* the current_iteration it has just counted lies beyond a multiple of
\* checkpoint_interval that the one of the previous pass had not reached
C34_CheckpointOnlyOnCrossing ==
    [][\A i \in Tasks :
          (tasks[i].pc \in {"spawned", "readline", "sleep"} /\ tasks'[i].pc = "progress")
             => tasks[i].liter \div checkpoint_interval
                   < tasks'[i].liter \div checkpoint_interval
      ]_vars

\* C35: no step takes a run whose persisted status is Paused to Completed or
\* to Failed
C35_PausedNeverEnds ==
    [][\A r \in RunIds :
          db[r].status = PAUSED => db'[r].status \notin {COMPLETED, FAILED}
      ]_vars

\* C36: the status recorded in a checkpoint is the persisted status of its run
\* at the step that appends the checkpoint
C36_CheckpointStateIsPersisted ==
    [][\A r \in RunIds :
          Len(ckpts'[r]) = Len(ckpts[r]) + 1
             => ckpts'[r][Len(ckpts'[r])].status = db[r].status
      ]_vars

\* ------------------------------------------------------------ invalid action

\* the action strings a control request may carry besides the four in lower
\* case: one of them in capitals, a word that is none of them, the empty string
Actions == Ops \cup {"START", "restart", ""}

\* str.lower()
lower(action) == IF action = "START" THEN "start" ELSE action

\* control_simulation, lines 136-160: the status of the answer by what the try
\* block raised.  ValueError is answered 400; everything else that is an
\* Exception is answered 500 by the last clause, and HTTPException is an
\* Exception and no ValueError.
StatusOf(raised) ==
    CASE raised = "none" -> 200
      [] raised = "ValueError" -> 400
      [] OTHER -> 500

\* control_simulation for an action that is none of the four once in lower
\* case: no method of the manager is called; the else branch raises
\* HTTPException(400) inside the try block (lines 149-153), where the clauses
\* of lines 157-160 handle it
InvalidAction(q, action, r) ==
    /\ LoopFree
    /\ lower(action) \notin Ops
    /\ req[q].pc = "idle"
    /\ \A p \in Reqs : p < q => req[p].pc # "idle"
    /\ req' = [req EXCEPT ![q] = [IdleReq EXCEPT !.op = lower(action), !.run = r,
                                                  !.pc = "answered",
                                                  !.code = StatusOf("HTTPException")]]
    /\ UNCHANGED <<workspace, db, ckpts, logf, running_simulations, simulation_tasks, tasks, procs>>

\* the answer is sent and the request is over
Respond(q) ==
    /\ LoopFree
    /\ req[q].pc = "answered"
    /\ req' = [req EXCEPT ![q] = IdleReq]
    /\ UNCHANGED <<workspace, db, ckpts, logf, running_simulations, simulation_tasks, tasks, procs>>

\* POST /simulations/{id}/control with any action string: those that are one of
\* the four in lower case go the way of Control
Invalid(Q) ==
    \/ \E q \in Reqs, action \in Actions, r \in Named :
          /\ InFlight < Q
          /\ InvalidAction(q, action, r)
    \/ \E q \in Reqs : Respond(q)

NextInvalid ==
    \/ Creation
    \/ Control(RaceTasks, MaxReq)
    \/ Invalid(MaxReq)
    \/ Monitors
    \/ Workers

\* one run and its control requests, with any action string, one after the other
SpecInvalid == Init /\ [][NextInvalid]_vars

\* C37: a control request whose action is none of start, pause, resume and stop
\* is answered 400, and the step that refuses it changes no run, no checkpoint,
\* no registry, no task and no process
C37_InvalidActionIsClientError ==
    /\ [](\A q \in Reqs : req[q].pc = "answered" => req[q].code = 400)
    /\ [][\A q \in Reqs :
             (req[q].pc = "idle" /\ req'[q].pc = "answered")
                => UNCHANGED <<db, ckpts, logf, running_simulations, simulation_tasks,
                               tasks, procs>>
         ]_vars

\* C38: a pass of the monitoring loop that goes on (the progress commit, then
\* the cadence checkpoint) changes nothing of the table but current_iteration
\* and progress_percentage of its run, and nothing of the checkpoints but to
\* add to those of its run; and a step of a monitoring task that changes the
\* status of its run is the last one before the task's cleanup
C38_ProgressLeavesStatus ==
    [][\A i \in Tasks :
          LET r == tasks[i].run IN
          /\ (/\ tasks[i].pc \in {"spawned", "readline", "sleep", "progress"}
              /\ tasks'[i].pc \in {"readline", "sleep", "progress"}
              /\ tasks'[i].pc # tasks[i].pc)
             => /\ db' = [db EXCEPT ![r].iter = db'[r].iter, ![r].prog = db'[r].prog]
                /\ \A s \in RunIds \ {r} : ckpts'[s] = ckpts[s]
                /\ IsPrefix(ckpts[r], ckpts'[r])
          /\ (tasks'[i].pc # tasks[i].pc /\ db'[r].status # db[r].status)
             => tasks'[i].pc \in {"final", "done"}
      ]_vars

\* C38 witness: a run was paused before its worker was spawned, so that the
\* worker runs; the monitoring task, whose copy of the run says Running, has
\* since committed the progress of a line it read, and the run is still Paused
C38_Witness ==
    \E r \in Created, i \in Tasks :
       /\ tasks[i].run = r /\ tasks[i].pc = "sleep" /\ tasks[i].lstatus = RUNNING
       /\ procs[i].state = "running"
       /\ db[r].status = PAUSED /\ db[r].iter > 0
       /\ \A q \in Reqs : req[q].pc = "idle"

====
